---- MODULE Spec2Model ----
(***************************************************************************)
(* Serial-number lifecycle of pyxidust (src/pyxidust/projects.py):         *)
(* get_serial, new_serial, validate_serial and the counter file SERIALS.   *)
(*                                                                         *)
(* A string is a sequence of one-character strings.  The counter file is   *)
(* modelled by its content, a string.                                      *)
(***************************************************************************)
EXTENDS Integers, Sequences, FiniteSets, TLC

VARIABLES
    year,       \* config.YEAR formatted by the f-string: four digits
    file,       \* content of the counter file SERIALS
    file0,      \* content of the counter file when the last call started
    arg,        \* the `serial` / `string` argument of the call (or None)
    op,         \* the function called last
    outcome,    \* "none" | "returned" | the name of the exception raised
    ret,        \* the value the last call returned
    reported,   \* the dialogs message_window showed during the last call
    minted,     \* the serials get_serial returned so far, oldest first
    calls,      \* number of calls made so far
    pc,         \* per process: position inside get_serial
    rd,         \* per process: the content it read from the counter file
    serial,     \* per process: the local variable `serial` of get_serial
    out,        \* per process: the serials its get_serial calls returned
    catalog,    \* content of the catalog file CATALOG
    catalog0,   \* content of the catalog file when the last call started
    projects,   \* names of the folders under PROJECTS
    projects0,  \* names of the folders under PROJECTS when the last call started
    archive,    \* names of the folders under ARCHIVE
    desc,       \* the `description` argument
    name,       \* the `name` argument
    template,   \* the `template` argument
    trace,      \* the functions the last new_project wrapper call ran, in order
    listing,    \* os.listdir(directory): the file names, in the order returned
    option,     \* the `option` argument of add_map
    quantity,   \* the `quantity` argument of add_map
    filename,   \* the `filename` argument of add_map (or None)
    created,    \* the destinations add_map copied to, in order
    picked,     \* the `serial_base` add_map took from the directory
    tree,       \* the files under `directory`: folder, name, modification time
    tree0,      \* the files under `directory` when the last call started
    clock,      \* the time, in seconds
    extension,  \* the `extension` argument of get_metadata
    walked,     \* the files in the order os.walk gave them to the last call
    metadata,   \* the rows of directory\Catalog.csv
    metadata0,  \* the rows of directory\Catalog.csv when the last call started
    crawls,     \* per get_metadata call: its extension and the rows it left
    arc,        \* per .aprx file: the maps, layers and layouts arcpy lists
    attributes, \* the rows of Maps.csv, Layers.csv and Layouts.csv
    joined,     \* the rows of MapsJoined.csv, LayersJoined.csv, LayoutsJoined.csv
    stem,       \* the `string` argument of get_suffix
    loops,      \* the local `loops` of the generator
    letter,     \* the position in UPPER of the letter yielded last (0: none)
    yielded,    \* the values the generator yielded, oldest first
    length,     \* the `length` argument of validate_string
    text,       \* the `text` argument of validate_string
    result      \* the `result` validate_string returned

projVars == <<catalog, catalog0, projects, projects0, archive, desc, name,
              template, trace>>

mapVars == <<listing, option, quantity, filename, created, picked>>

crawlVars == <<tree, tree0, clock, extension, walked, metadata, metadata0,
               crawls>>

indexVars == <<arc, attributes, joined>>

genVars == <<stem, loops, letter, yielded>>

strVars == <<length, text, result>>

tailVars == <<indexVars, genVars, strVars>>

extVars == <<projVars, mapVars, crawlVars, tailVars>>

vars == <<year, file, file0, arg, op, outcome, ret, reported, minted, calls,
          pc, rd, serial, out, extVars>>

seqVars == <<arg, op, outcome, ret, reported, file0>>
procVars == <<pc, rd, serial, out>>

----------------------------------------------------------------------------
(* Bounds *)

\* calls made in one behaviour of the sequential workflow
MaxCalls == 2
\* get_serial calls each process makes in the concurrent workflow
MaxProcCalls == 2
\* calls made in one behaviour of the new-project workflow
MaxProjCalls == 3
\* largest `quantity` passed to add_map
MaxQuantity == 3
\* get_metadata calls made in one behaviour
MaxCrawls == 2
\* files in the directory when a walk starts
MaxFiles == 5
\* values taken from one generator
MaxYields == 56

----------------------------------------------------------------------------
(* Characters *)

DIGITS == <<"0", "1", "2", "3", "4", "5", "6", "7", "8", "9">>

Digit == {DIGITS[i] : i \in 1..10}

\* representatives of str.isalpha
Letter == {"a", "Z"}

\* representatives of str.isspace
Space == {" ", "\n"}

\* representatives of string.punctuation (ASCII punctuation only)
SPECIAL == {"-", "!", ",", "_", ".", "/", ":"}

\* a character that is no ASCII digit, no letter, no whitespace and not in
\* string.punctuation: the section sign U+00A7
Other == {"U+00A7"}

NonDigit == {"a", "Z", " ", "-", "!"} \cup Other

None == <<"None">>

isalpha(c) == c \in Letter

isspace(c) == c \in Space

DigitVal(c) == CHOOSE d \in 0..9 : DIGITS[d + 1] = c

AllDigits(s) == \A i \in 1..Len(s) : s[i] \in Digit

----------------------------------------------------------------------------
(* str / int primitives used by the code *)

\* str.count(c)
count(s, c) == Cardinality({i \in 1..Len(s) : s[i] = c})

RECURSIVE split(_, _)
\* str.split(c): the segments between the occurrences of c
split(s, c) ==
    IF \A i \in 1..Len(s) : s[i] # c
    THEN <<s>>
    ELSE LET k == CHOOSE i \in 1..Len(s) :
                      s[i] = c /\ \A j \in 1..(i - 1) : s[j] # c
         IN  <<SubSeq(s, 1, k - 1)>> \o split(SubSeq(s, k + 1, Len(s)), c)

RECURSIVE strip(_)
\* int() ignores leading and trailing whitespace
strip(s) ==
    IF Len(s) > 0 /\ isspace(s[1]) THEN strip(Tail(s))
    ELSE IF Len(s) > 0 /\ isspace(s[Len(s)]) THEN strip(SubSeq(s, 1, Len(s) - 1))
    ELSE s

\* int(s) succeeds (no sign or underscore occurs in the strings of this model)
IntOk(s) == Len(strip(s)) > 0 /\ AllDigits(strip(s))

RECURSIVE norm(_)
\* the decimal digits of int(s): no leading zero
norm(s) == IF Len(s) > 1 /\ s[1] = "0" THEN norm(Tail(s)) ELSE s

\* a carry that is dropped
IncMut(t) ==
    IF t = <<>> THEN <<"1">>
    ELSE LET last == t[Len(t)]
             init == SubSeq(t, 1, Len(t) - 1)
         IN  IF last = "9" THEN init \o <<"0">>
             ELSE init \o <<DIGITS[DigitVal(last) + 2]>>

RECURSIVE Inc(_)
\* the decimal digits of n + 1, from the decimal digits of n
Inc(t) ==
    IF t = <<>> THEN <<"1">>
    ELSE LET last == t[Len(t)]
             init == SubSeq(t, 1, Len(t) - 1)
         IN  IF last = "9" THEN Inc(init) \o <<"0">>
             ELSE init \o <<DIGITS[DigitVal(last) + 2]>>

\* str(int(s) + 1)
IntPlusOne(s) == Inc(norm(strip(s)))

RECURSIVE zfill(_, _)
\* str.zfill(w)
zfill(t, w) == IF Len(t) >= w THEN t ELSE zfill(<<"0">> \o t, w)

\* n > 9999 for the decimal digits t of n
Above9999(t) == Len(t) > 4

----------------------------------------------------------------------------
(* get_serial *)

\* the counter is not incremented
get_serial_value_mut(yr, content) == yr \o norm(strip(content))

\* the local `serial` of get_serial: f'{YEAR}{str(int(file.read()) + 1)}'
get_serial_value(yr, content) == yr \o IntPlusOne(content)

\* the content read is written back
get_serial_written_mut(yr, content) == content

\* the string get_serial hands to file.write
get_serial_written(yr, content) == get_serial_value(yr, content)

\* get_serial run to completion by one process on a counter file `content`
get_serial(yr, content) ==
    IF ~IntOk(content)
    THEN [outcome |-> "ValueError", ret |-> None, file |-> content,
          minted |-> <<>>]
    ELSE [outcome |-> "returned",
          ret     |-> get_serial_value(yr, content),
          file    |-> get_serial_written(yr, content),
          minted  |-> <<get_serial_value(yr, content)>>]

----------------------------------------------------------------------------
(* validate_serial *)

\* the whitespace test is missing
check_numeric_mut(value) ==
    IF \E i \in 1..Len(value) : isalpha(value[i]) THEN <<"letters">>
    ELSE IF \E i \in 1..Len(value) : value[i] \in SPECIAL THEN <<"special">>
    ELSE <<>>

\* validate_serial._check_numeric: the dialogs it shows for one segment
check_numeric(value) ==
    IF \E i \in 1..Len(value) : isalpha(value[i]) THEN <<"letters">>
    ELSE IF \E i \in 1..Len(value) : isspace(value[i]) THEN <<"spaces">>
    ELSE IF \E i \in 1..Len(value) : value[i] \in SPECIAL THEN <<"special">>
    ELSE <<>>

\* validate_serial._format_error
format_error == <<"format">>

\* the dashes are not counted
is_composite_mut(string) == Len(string) = 13 /\ string[9] = "-"

\* the test of the `elif` of validate_serial
is_composite(string) ==
    Len(string) = 13 /\ count(string, "-") = 1 /\ string[9] = "-"

\* validate_serial: the dialogs shown; it returns None and raises nothing
validate_serial(string) ==
    IF Len(string) = 8 THEN check_numeric(string)
    ELSE IF is_composite(string)
    THEN check_numeric(split(string, "-")[1])
             \o check_numeric(split(string, "-")[2])
    ELSE format_error

\* utils.validate_serial._check_numeric: the name SPECIAL is bound nowhere in
\* utils.py, so the third test raises NameError
utils_check_numeric(value) ==
    IF \E i \in 1..Len(value) : isalpha(value[i])
    THEN [outcome |-> "returned", reported |-> <<"letters">>]
    ELSE IF \E i \in 1..Len(value) : isspace(value[i])
    THEN [outcome |-> "returned", reported |-> <<"spaces">>]
    ELSE IF Len(value) = 0
    THEN [outcome |-> "returned", reported |-> <<>>]
    ELSE [outcome |-> "NameError", reported |-> <<>>]

\* utils.validate_serial: the outcome and the dialogs shown
utils_validate_serial(string) ==
    IF Len(string) = 8 THEN utils_check_numeric(string)
    ELSE IF is_composite(string)
    THEN LET b == utils_check_numeric(split(string, "-")[1])
             s == utils_check_numeric(split(string, "-")[2])
         IN  IF b.outcome # "returned" THEN b
             ELSE [outcome |-> s.outcome, reported |-> b.reported \o s.reported]
    ELSE [outcome |-> "returned", reported |-> format_error]

----------------------------------------------------------------------------
(* new_serial *)

FIRST == <<"-", "0", "0", "0", "1">>

\* the first suffix is 0000
new_serial_base_mut(string) == string \o <<"-", "0", "0", "0", "0">>

\* new_serial, branch len(serial) == 8
new_serial_base(string) == string \o FIRST

\* new_serial, the `else` of branch len(serial) == 13
new_serial_next(base, suffix_int) == base \o <<"-">> \o zfill(suffix_int, 4)

\* the limit has one digit too many
rolls_over_mut(suffix_int) == Len(suffix_int) > 5

\* new_serial, the test suffix_int > 9999
rolls_over(suffix_int) == Above9999(suffix_int)

\* new_serial, branch len(serial) == 13, after validate_serial returned
new_serial_composite(string, yr, content) ==
    LET parts == split(string, "-") IN
    IF Len(parts) # 2 \/ ~IntOk(parts[2])
    THEN [outcome |-> "ValueError", ret |-> None, file |-> content,
          minted |-> <<>>]
    ELSE LET suffix_int == IntPlusOne(parts[2]) IN
         IF rolls_over(suffix_int)
         THEN LET g == get_serial(yr, content) IN
              [outcome |-> g.outcome,
               ret     |-> IF g.outcome = "returned" THEN g.ret \o FIRST
                           ELSE None,
               file    |-> g.file,
               minted  |-> g.minted]
         ELSE [outcome |-> "returned",
               ret     |-> new_serial_next(parts[1], suffix_int),
               file    |-> content,
               minted  |-> <<>>]

\* new_serial(serial): outcome, returned value, counter file and dialogs
new_serial(string, yr, content) ==
    IF string = None
    THEN LET g == get_serial(yr, content) IN
         [outcome  |-> g.outcome,
          ret      |-> IF g.outcome = "returned" THEN g.ret \o FIRST ELSE None,
          file     |-> g.file,
          minted   |-> g.minted,
          reported |-> <<>>]
    ELSE LET r == IF Len(string) = 8
                  THEN [outcome |-> "returned", ret |-> new_serial_base(string),
                        file |-> content, minted |-> <<>>]
                  ELSE IF Len(string) = 13
                  THEN new_serial_composite(string, yr, content)
                  ELSE [outcome |-> "UnboundLocalError", ret |-> None,
                        file |-> content, minted |-> <<>>]
         IN  [outcome  |-> r.outcome,
              ret      |-> r.ret,
              file     |-> r.file,
              minted   |-> r.minted,
              reported |-> validate_serial(string)]

----------------------------------------------------------------------------
(* Inputs *)

\* the string of the decimal digits ds
Str(ds) == [i \in 1..Len(ds) |-> DIGITS[ds[i] + 1]]

Replace(s, i, c) == [s EXCEPT ![i] = c]

Years == {Str(<<2, 0, 2, 5>>), Str(<<2, 0, 2, 6>>)}

\* contents of the counter file before the first call: decimal integers
InitFiles ==
    {Str(<<0>>), Str(<<9>>), Str(<<1, 0, 0>>), Str(<<0, 1, 0, 0>>),
     Str(<<9, 9, 9>>), Str(<<1, 2, 3, 3>>), Str(<<9, 9, 9, 8>>),
     Str(<<9, 9, 9, 9>>)}

Bases ==
    {Str(<<2, 0, 2, 5, 1, 2, 3, 4>>), Str(<<2, 0, 2, 6, 1, 0, 0, 0>>),
     Str(<<0, 0, 0, 0, 0, 0, 0, 0>>)}

Suffixes ==
    [1..4 -> {"0", "9"}]
        \cup {Str(<<0, 0, 0, 1>>), Str(<<0, 1, 9, 9>>), Str(<<9, 9, 9, 8>>)}

Composites == {b \o <<"-">> \o s : b \in Bases, s \in Suffixes}

SeedBase == Str(<<2, 0, 2, 5, 1, 2, 3, 4>>)

SeedComposites ==
    {SeedBase \o <<"-">> \o Str(<<0, 0, 0, 1>>),
     SeedBase \o <<"-">> \o Str(<<9, 9, 9, 9>>)}

\* one character of a well-formed serial replaced by a non-digit
OneWrong ==
    UNION {{Replace(s, i, c) : i \in 1..Len(s), c \in NonDigit} :
               s \in SeedComposites \cup {SeedBase}}

\* the dash of a composite replaced, and one more character replaced
TwoWrong ==
    {Replace(Replace(SeedBase \o <<"-">> \o Str(<<0, 0, 0, 1>>), 9, c), i, d) :
        c \in {"0", "a"}, i \in (1..13) \ {9}, d \in {"-", " "}}

\* strings of every length from 0 to 15
Lengths ==
    {SubSeq(SeedBase \o <<"-">> \o Str(<<0, 0, 0, 1, 5, 6>>), 1, n) : n \in 0..15}

Inputs == Bases \cup Composites \cup OneWrong \cup TwoWrong \cup Lengths

----------------------------------------------------------------------------
(* The workflow of one process *)

Procs == {1, 2}

Raised ==
    {"OSError", "SameFileError", "NameError", "ValueError", "UnboundLocalError", "TypeError", "IndexError",
     "SystemExit", "FileExistsError", "FileNotFoundError", "AttributeError"}

\* the project workspace is not touched
NoProject ==
    /\ catalog = <<>>
    /\ catalog0 = <<>>
    /\ projects = {}
    /\ projects0 = {}
    /\ archive = {}
    /\ desc = <<>>
    /\ name = <<>>
    /\ template = "none"
    /\ trace = <<>>

\* add_map is not called
NoMap ==
    /\ listing = <<>>
    /\ option = "none"
    /\ quantity = 0
    /\ filename = None
    /\ created = <<>>
    /\ picked = None

\* get_metadata is not called
NoCrawl ==
    /\ tree = {}
    /\ tree0 = {}
    /\ clock = 0
    /\ extension = None
    /\ walked = <<>>
    /\ metadata = <<>>
    /\ metadata0 = <<>>
    /\ crawls = <<>>

\* create_index is not called
NoIndex ==
    /\ arc = <<>>
    /\ attributes = [Maps |-> <<>>, Layers |-> <<>>, Layouts |-> <<>>]
    /\ joined = [Maps |-> <<>>, Layers |-> <<>>, Layouts |-> <<>>]

\* no generator is created
NoGenerator ==
    /\ stem = <<>>
    /\ loops = 0
    /\ letter = 0
    /\ yielded = <<>>

\* validate_string is not called
NoString ==
    /\ length = <<>>
    /\ text = <<>>
    /\ result = TRUE

NoTail == NoIndex /\ NoGenerator /\ NoString

Idle ==
    /\ pc = [p \in Procs |-> "idle"]
    /\ rd = [p \in Procs |-> None]
    /\ serial = [p \in Procs |-> None]
    /\ out = [p \in Procs |-> <<>>]

Init ==
    /\ year \in Years
    /\ file \in InitFiles
    /\ file0 = file
    /\ arg \in Inputs \cup {None}
    /\ op = "none"
    /\ outcome = "none"
    /\ ret = None
    /\ reported = <<>>
    /\ minted = <<>>
    /\ calls = 0
    /\ Idle
    /\ NoProject
    /\ NoMap
    /\ NoCrawl
    /\ NoTail

\* an uncaught exception ends the process
Running == outcome \notin Raised /\ calls < MaxCalls

\* a call of get_serial()
GetSerial ==
    /\ Running
    /\ LET g == get_serial(year, file) IN
       /\ op' = "get_serial"
       /\ outcome' = g.outcome
       /\ ret' = g.ret
       /\ file' = g.file
       /\ minted' = minted \o g.minted
    /\ file0' = file
    /\ reported' = <<>>
    /\ calls' = calls + 1
    /\ UNCHANGED <<extVars, year, arg, procVars>>

\* a call of new_serial(arg)
NewSerial ==
    /\ Running
    /\ LET n == new_serial(arg, year, file) IN
       /\ op' = "new_serial"
       /\ outcome' = n.outcome
       /\ ret' = n.ret
       /\ file' = n.file
       /\ minted' = minted \o n.minted
       /\ reported' = n.reported
    /\ file0' = file
    /\ calls' = calls + 1
    /\ UNCHANGED <<extVars, year, arg, procVars>>

\* a call of validate_serial(arg)
ValidateSerial ==
    /\ Running
    /\ arg # None
    /\ op' = "validate_serial"
    /\ outcome' = "returned"
    /\ ret' = None
    /\ reported' = validate_serial(arg)
    /\ file0' = file
    /\ calls' = calls + 1
    /\ UNCHANGED <<extVars, year, arg, file, minted, procVars>>

\* a call of utils.validate_serial(arg)
UtilsValidateSerial ==
    /\ Running
    /\ arg # None
    /\ LET v == utils_validate_serial(arg) IN
       /\ op' = "utils.validate_serial"
       /\ outcome' = v.outcome
       /\ reported' = v.reported
    /\ ret' = None
    /\ file0' = file
    /\ calls' = calls + 1
    /\ UNCHANGED <<extVars, year, arg, file, minted, procVars>>

\* the caller passes the serial it got to its next call
\* (add_map: serial = new_serial(serial))
Reassign ==
    /\ Running
    /\ op \in {"get_serial", "new_serial"}
    /\ outcome = "returned"
    /\ arg' = ret
    /\ op' = "none"
    /\ outcome' = "none"
    /\ ret' = None
    /\ reported' = <<>>
    /\ file0' = file
    /\ UNCHANGED <<extVars, year, file, minted, calls, procVars>>

Next ==
    GetSerial \/ NewSerial \/ ValidateSerial \/ UtilsValidateSerial \/ Reassign

Spec == Init /\ [][Next]_vars

----------------------------------------------------------------------------
(* Two processes calling get_serial on the same counter file *)

InitRace ==
    /\ year \in Years
    /\ file \in InitFiles
    /\ file0 = file
    /\ arg = None
    /\ op = "none"
    /\ outcome = "none"
    /\ ret = None
    /\ reported = <<>>
    /\ minted = <<>>
    /\ calls = 0
    /\ Idle
    /\ NoProject
    /\ NoMap
    /\ NoCrawl
    /\ NoTail

\* file.write(s) on a file opened at offset 0, flushed when the `with` closes:
\* s replaces the first len(s) characters of what the file holds by then
Overwrite(s, content) == s \o SubSeq(content, Len(s) + 1, Len(content))

\* with open(SERIALS, 'r'): serial = f'{YEAR}{str(int(file.read()) + 1)}'
RaceRead(p) ==
    /\ pc[p] = "idle"
    /\ Len(out[p]) < MaxProcCalls
    /\ rd' = [rd EXCEPT ![p] = file]
    /\ \/ /\ IntOk(file)
          /\ serial' = [serial EXCEPT ![p] = get_serial_value(year, file)]
          /\ pc' = [pc EXCEPT ![p] = "read"]
       \/ /\ ~IntOk(file)
          /\ serial' = serial
          /\ pc' = [pc EXCEPT ![p] = "ValueError"]
    /\ UNCHANGED <<extVars, year, file, seqVars, minted, calls, out>>

\* open(SERIALS, 'w+') truncates the file
RaceOpen(p) ==
    /\ pc[p] = "read"
    /\ file' = <<>>
    /\ pc' = [pc EXCEPT ![p] = "opened"]
    /\ UNCHANGED <<extVars, year, seqVars, minted, calls, rd, serial, out>>

\* file.write(serial) and the close of the `with`
RaceWrite(p) ==
    /\ pc[p] = "opened"
    /\ file' = Overwrite(get_serial_written(year, rd[p]), file)
    /\ pc' = [pc EXCEPT ![p] = "written"]
    /\ UNCHANGED <<extVars, year, seqVars, minted, calls, rd, serial, out>>

\* return serial
RaceReturn(p) ==
    /\ pc[p] = "written"
    /\ out' = [out EXCEPT ![p] = Append(out[p], serial[p])]
    /\ pc' = [pc EXCEPT ![p] = "idle"]
    /\ UNCHANGED <<extVars, year, file, seqVars, minted, calls, rd, serial>>

NextRace ==
    \E p \in Procs : RaceRead(p) \/ RaceOpen(p) \/ RaceWrite(p) \/ RaceReturn(p)

SpecRace == InitRace /\ [][NextRace]_vars

----------------------------------------------------------------------------
(* The new-project workflow: archive_project, validate_project, log_project, *)
(* create_folder, name_elements and the new_project wrapper                  *)

\* config.SIZES (the templates are opaque names)
SIZES ==
    {"P_08x11", "P_11x17", "P_18x24", "P_24x36", "P_36x48", "L_08x11",
     "L_11x17", "L_18x24", "L_24x36", "L_36x48"}

\* str.isnumeric
isnumeric(c) == c \in Digit

APRX == <<".", "a", "p", "r", "x">>

\* the entry starts on the last line of the catalog
log_entry_mut(description, name_, serial_, creator, stamp) ==
    serial_ \o <<",">> \o name_ \o <<",">> \o description \o <<",">>
        \o creator \o <<",">> \o stamp \o <<"\n">>

\* log_project: the text handed to file.write
log_entry(description, name_, serial_, creator, stamp) ==
    <<"\n">> \o serial_ \o <<",">> \o name_ \o <<",">> \o description
        \o <<",">> \o creator \o <<",">> \o stamp

\* the catalog is opened in write mode
log_project_mut(description, name_, serial_, cat, creator, stamp) ==
    [outcome |-> "returned",
     ret     |-> <<serial_ \o <<"_">> \o name_,
                   serial_ \o FIRST \o <<"_">> \o name_ \o APRX,
                   serial_ \o FIRST>>,
     catalog |-> log_entry(description, name_, serial_, creator, stamp)]

\* log_project: the catalog is opened in append mode
log_project(description, name_, serial_, cat, creator, stamp) ==
    LET map_serial == serial_ \o FIRST
        folder_name == serial_ \o <<"_">> \o name_
        map_name == map_serial \o <<"_">> \o name_ \o APRX
    IN  [outcome |-> "returned",
         ret     |-> <<folder_name, map_name, map_serial>>,
         catalog |-> cat \o log_entry(description, name_, serial_, creator, stamp)]

\* the test on the name's whitespace is missing
validate_project_error_mut(description, name_, tmpl) ==
    IF \E i \in 1..Len(description) : isnumeric(description[i])
    THEN "Description does not accept numbers."
    ELSE IF \E i \in 1..Len(description) : description[i] \in SPECIAL
    THEN "Description does not accept special characters."
    ELSE IF Len(description) > 50
    THEN "Description must be 50 characters or less."
    ELSE IF \E i \in 1..Len(name_) : name_[i] \in SPECIAL
    THEN "Name does not accept special characters."
    ELSE IF Len(name_) > 15
    THEN "Name must be 15 characters or less."
    ELSE IF tmpl \notin SIZES
    THEN "Invalid template size"
    ELSE "unbound"

\* validate_project: the value of `error` after the if / elif chain;
\* no branch binds it when every test fails
validate_project_error(description, name_, tmpl) ==
    IF \E i \in 1..Len(description) : isnumeric(description[i])
    THEN "Description does not accept numbers."
    ELSE IF \E i \in 1..Len(description) : description[i] \in SPECIAL
    THEN "Description does not accept special characters."
    ELSE IF Len(description) > 50
    THEN "Description must be 50 characters or less."
    ELSE IF \E i \in 1..Len(name_) : isspace(name_[i])
    THEN "Name does not accept spaces."
    ELSE IF \E i \in 1..Len(name_) : name_[i] \in SPECIAL
    THEN "Name does not accept special characters."
    ELSE IF Len(name_) > 15
    THEN "Name must be 15 characters or less."
    ELSE IF tmpl \notin SIZES
    THEN "Invalid template size"
    ELSE "unbound"

\* validate_project: `if error is not None` reads the unbound local, or shows
\* the two dialogs and calls exit()
validate_project(description, name_, tmpl) ==
    LET error == validate_project_error(description, name_, tmpl) IN
    IF error = "unbound"
    THEN [outcome |-> "UnboundLocalError", reported |-> <<>>]
    ELSE [outcome |-> "SystemExit",
          reported |-> <<error, "Check user input arguments and try again">>]

\* archive_project: folder.startswith(YEAR) is evaluated for the first folder
\* os.walk yields; config.YEAR is an int, so str.startswith raises TypeError
archive_project(projs, arch) ==
    IF projs = {}
    THEN [outcome |-> "returned", projects |-> projs, archive |-> arch]
    ELSE [outcome |-> "TypeError", projects |-> projs, archive |-> arch]

\* create_folder: os.mkdir, then shutil.copy of the template
create_folder(folder_name, map_name, tmpl, projs) ==
    IF folder_name \in projs
    THEN [outcome |-> "FileExistsError", ret |-> None, projects |-> projs]
    ELSE IF tmpl \notin SIZES
    THEN [outcome |-> "FileNotFoundError", ret |-> None,
          projects |-> projs \cup {folder_name}]
    ELSE [outcome |-> "returned", ret |-> folder_name,
          projects |-> projs \cup {folder_name}]

\* the statements of new_project.wrapper after validate_project returned
new_project_body(description, name_, tmpl, yr, content, cat, projs, creator, stamp) ==
    LET g == get_serial(yr, content) IN
    IF g.outcome # "returned"
    THEN [outcome |-> g.outcome, ret |-> None, trace |-> <<"get_serial">>,
          file |-> g.file, minted |-> g.minted, catalog |-> cat,
          projects |-> projs]
    ELSE
    LET l == log_project(description, name_, g.ret, cat, creator, stamp)
        c == create_folder(l.ret[1], l.ret[2], tmpl, projs)
    IN  IF c.outcome # "returned"
        THEN [outcome |-> c.outcome, ret |-> None,
              trace |-> <<"get_serial", "log_project", "create_folder">>,
              file |-> g.file, minted |-> g.minted, catalog |-> l.catalog,
              projects |-> c.projects]
        ELSE [outcome |-> "returned", ret |-> <<"result">>,
              trace |-> <<"get_serial", "log_project", "create_folder",
                          "name_elements", "function">>,
              file |-> g.file, minted |-> g.minted, catalog |-> l.catalog,
              projects |-> c.projects]

\* new_project.wrapper(description, name, template)
new_project(description, name_, tmpl, yr, content, cat, projs, arch, creator, stamp) ==
    LET a == archive_project(projs, arch)
        v == validate_project(description, name_, tmpl)
        stay == [file |-> content, minted |-> <<>>, catalog |-> cat,
                 projects |-> a.projects, archive |-> a.archive, ret |-> None]
    IN  IF a.outcome # "returned"
        THEN stay @@ [outcome |-> a.outcome, reported |-> <<>>,
                      trace |-> <<"archive_project">>]
        ELSE IF v.outcome # "returned"
        THEN stay @@ [outcome |-> v.outcome, reported |-> v.reported,
                      trace |-> <<"archive_project", "validate_project">>]
        ELSE LET b == new_project_body(description, name_, tmpl, yr, content,
                                       cat, a.projects, creator, stamp)
             IN  [outcome |-> b.outcome, ret |-> b.ret, reported |-> <<>>,
                  trace |-> <<"archive_project", "validate_project">> \o b.trace,
                  file |-> b.file, minted |-> b.minted, catalog |-> b.catalog,
                  projects |-> b.projects, archive |-> a.archive]

----------------------------------------------------------------------------
(* The new-project workflow as a state machine *)

Run(c, n) == [i \in 1..n |-> c]

Descriptions ==
    {<<"Z", "a", " ", "a">>, <<"Z", "a", "7">>, <<"Z", "a", ",", "a">>,
     <<"Z", "a", "\n", "a">>, Run("a", 50), Run("a", 51)}

Names ==
    {<<"Z", "a", "a">>, <<"Z", " ", "a">>, <<"Z", "_", "a">>, Run("a", 15),
     Run("a", 16)}

Templates == {"L_08x11", "A4"}

Catalogs == {<<>>, <<"Z", "a">>, <<"Z", "a", "\n">>}

Folders ==
    {Str(<<2, 0, 2, 5>>) \o <<"_", "Z">>, Str(<<2, 0, 2, 4>>) \o <<"_", "Z">>}

SerialArgs == {Str(<<2, 0, 2, 5, 1, 2, 3, 4>>)}

\* getpass.getuser()
Users == {<<"Z", "a">>}

\* time.strftime('%m/%d/%y,%H:%M:%S', time.localtime())
Stamps ==
    {<<"1", "1", "/", "0", "5", "/", "2", "6", ",",
       "1", "8", ":", "0", "1", ":", "0", "0">>,
     <<"0", "1", "/", "0", "2", "/", "2", "7", ",",
       "0", "0", ":", "0", "0", ":", "5", "9">>}

InitProject ==
    /\ year \in Years
    /\ file = Str(<<1, 0, 0>>)
    /\ file0 = file
    /\ arg \in SerialArgs
    /\ op = "none"
    /\ outcome = "none"
    /\ ret = None
    /\ reported = <<>>
    /\ minted = <<>>
    /\ calls = 0
    /\ Idle
    /\ catalog \in Catalogs
    /\ catalog0 = catalog
    /\ projects \in {{}, Folders} \cup {{f} : f \in Folders}
    /\ projects0 = projects
    /\ archive = {}
    /\ desc \in Descriptions
    /\ name \in Names
    /\ template \in Templates
    /\ trace = <<>>
    /\ NoMap
    /\ NoCrawl
    /\ NoTail

RunningProject == outcome \notin Raised /\ calls < MaxProjCalls

\* the state a call starts from
Started ==
    /\ file0' = file
    /\ catalog0' = catalog
    /\ projects0' = projects
    /\ calls' = calls + 1

\* a call of the function wrapped by @new_project
NewProject ==
    /\ RunningProject
    /\ \E creator \in Users, stamp \in Stamps :
         LET n == new_project(desc, name, template, year, file, catalog,
                              projects, archive, creator, stamp)
         IN  /\ op' = "new_project"
             /\ outcome' = n.outcome
             /\ ret' = n.ret
             /\ reported' = n.reported
             /\ trace' = n.trace
             /\ file' = n.file
             /\ minted' = minted \o n.minted
             /\ catalog' = n.catalog
             /\ projects' = n.projects
             /\ archive' = n.archive
    /\ Started
    /\ UNCHANGED <<year, arg, desc, name, template, procVars, mapVars, crawlVars,
                   tailVars>>

\* a call of log_project(desc, name, arg)
LogProject ==
    /\ RunningProject
    /\ \E creator \in Users, stamp \in Stamps :
         LET l == log_project(desc, name, arg, catalog, creator, stamp)
         IN  /\ op' = "log_project"
             /\ outcome' = l.outcome
             /\ ret' = l.ret
             /\ catalog' = l.catalog
    /\ reported' = <<>>
    /\ Started
    /\ UNCHANGED <<year, file, arg, minted, projects, archive, desc, name,
                   template, trace, procVars, mapVars, crawlVars,
                   tailVars>>

\* a call of archive_project()
ArchiveProject ==
    /\ RunningProject
    /\ LET a == archive_project(projects, archive) IN
         /\ op' = "archive_project"
         /\ outcome' = a.outcome
         /\ projects' = a.projects
         /\ archive' = a.archive
    /\ ret' = None
    /\ reported' = <<>>
    /\ Started
    /\ UNCHANGED <<year, file, arg, minted, catalog, desc, name, template,
                   trace, procVars, mapVars, crawlVars,
                   tailVars>>

\* a call of validate_project(desc, name, template)
ValidateProject ==
    /\ RunningProject
    /\ LET v == validate_project(desc, name, template) IN
         /\ op' = "validate_project"
         /\ outcome' = v.outcome
         /\ reported' = v.reported
    /\ ret' = None
    /\ Started
    /\ UNCHANGED <<year, file, arg, minted, catalog, projects, archive, desc,
                   name, template, trace, procVars, mapVars, crawlVars,
                   tailVars>>

\* a call of create_folder with the names log_project returned
CreateFolder ==
    /\ RunningProject
    /\ op = "log_project"
    /\ outcome = "returned"
    /\ LET c == create_folder(ret[1], ret[2], template, projects) IN
         /\ op' = "create_folder"
         /\ outcome' = c.outcome
         /\ ret' = c.ret
         /\ projects' = c.projects
    /\ reported' = <<>>
    /\ Started
    /\ UNCHANGED <<year, file, arg, minted, catalog, archive, desc, name,
                   template, trace, procVars, mapVars, crawlVars,
                   tailVars>>

NextProject ==
    \/ NewProject
    \/ LogProject
    \/ ArchiveProject
    \/ ValidateProject
    \/ CreateFolder
    \/ GetSerial
    \/ Reassign

SpecProject == InitProject /\ [][NextProject]_vars

----------------------------------------------------------------------------
(* add_map *)

\* str.endswith
endswith(s, suffix) ==
    /\ Len(s) >= Len(suffix)
    /\ SubSeq(s, Len(s) - Len(suffix) + 1, Len(s)) = suffix

RECURSIVE remove(_, _)
\* str.replace(sub, '')
remove(s, sub) ==
    IF Len(s) < Len(sub) THEN s
    ELSE IF SubSeq(s, 1, Len(sub)) = sub
    THEN remove(SubSeq(s, Len(sub) + 1, Len(s)), sub)
    ELSE <<s[1]>> \o remove(Tail(s), sub)

IsAprx(i) == endswith(i, APRX)

\* the extension is not tested
aprx_files_mut(names) == names

\* [i for i in os.listdir(directory) if i.endswith('.aprx')]
aprx_files(names) == SelectSeq(names, IsAprx)

\* add_map._create_project: the exception it raises, or "returned";
\* os.path.join(directory, filename) is evaluated for every option
create_project(opt, fname, tmpl, destination) ==
    IF fname = None THEN "TypeError"
    ELSE IF opt = "scratch" /\ tmpl \notin SIZES THEN "FileNotFoundError"
    ELSE IF opt = "clone" /\ fname = destination THEN "SameFileError"
    ELSE "returned"

RECURSIVE add_map_loop(_, _, _, _)
\* add_map: for _ in range(0, quantity): _create_project();
\*                                       serial = new_serial(serial)
\* st: the serial, the counter file, the artifacts and the dialogs so far
add_map_loop(n, st, in, yr) ==
    IF n = 0 THEN [st EXCEPT !.outcome = "returned"]
    ELSE LET destination == st.serial \o <<"_">> \o in.title \o APRX
             c == create_project(in.option, in.filename, in.template,
                                 destination)
         IN
         IF c # "returned" THEN [st EXCEPT !.outcome = c]
         ELSE LET made == Append(st.created, destination)
                  s == new_serial(st.serial, yr, st.file)
              IN  IF s.outcome # "returned"
                  THEN [st EXCEPT !.outcome = s.outcome, !.created = made,
                                  !.file = s.file,
                                  !.minted = st.minted \o s.minted,
                                  !.reported = st.reported \o s.reported]
                  ELSE add_map_loop(n - 1,
                           [st EXCEPT !.serial = s.ret, !.created = made,
                                      !.file = s.file,
                                      !.minted = st.minted \o s.minted,
                                      !.reported = st.reported \o s.reported],
                           in, yr)

\* add_map(directory, option, quantity, filename, template)
add_map(names, opt, n, fname, tmpl, yr, content) ==
    LET files == aprx_files(names)
        st0 == [outcome |-> "none", serial |-> None, picked |-> None,
                file |-> content, created |-> <<>>, minted |-> <<>>,
                reported |-> <<>>]
    IN
    IF files = <<>> THEN [st0 EXCEPT !.outcome = "IndexError"]
    ELSE
    LET parts == split(remove(files[Len(files)], APRX), "_") IN
    IF Len(parts) # 2 THEN [st0 EXCEPT !.outcome = "ValueError"]
    ELSE IF opt = "clone" /\ fname = None
    THEN [st0 EXCEPT !.outcome = "AttributeError", !.picked = parts[1]]
    ELSE
    LET cparts == IF opt = "clone" THEN split(remove(fname, APRX), "_")
                  ELSE parts
    IN
    IF Len(cparts) # 2
    THEN [st0 EXCEPT !.outcome = "ValueError", !.picked = parts[1]]
    ELSE
    LET s == new_serial(parts[1], yr, content) IN
    IF s.outcome # "returned"
    THEN [st0 EXCEPT !.outcome = s.outcome, !.picked = parts[1],
                     !.file = s.file, !.minted = s.minted,
                     !.reported = s.reported]
    ELSE add_map_loop(n,
             [st0 EXCEPT !.serial = s.ret, !.picked = parts[1],
                         !.file = s.file, !.minted = s.minted,
                         !.reported = s.reported],
             [option |-> opt, filename |-> fname, template |-> tmpl,
              title |-> cparts[2]],
             yr)

----------------------------------------------------------------------------
(* add_map as a state machine *)

\* the artifact named serial_Z.aprx
Artifact(serial_) == serial_ \o <<"_", "Z">> \o APRX

\* the files a project directory may hold
Pool ==
    {Artifact(SeedBase),
     Artifact(SeedBase \o <<"-">> \o Str(<<0, 0, 0, 1>>)),
     Artifact(SeedBase \o <<"-">> \o Str(<<0, 0, 0, 2>>)),
     Artifact(SeedBase \o <<"-">> \o Str(<<9, 9, 9, 8>>)),
     <<"Z", ".", "c", "s", "v">>}

\* os.listdir: up to three files of the pool, in any order
Listings ==
    {<<>>} \cup {<<a>> : a \in Pool}
        \cup {s \in [1..2 -> Pool] : s[1] # s[2]}
        \cup {s \in [1..3 -> Pool] : s[1] # s[2] /\ s[1] # s[3] /\ s[2] # s[3]}

InitAddMap ==
    /\ year \in Years
    /\ file \in {Str(<<1, 0, 0>>), Str(<<1, 2, 3, 3>>)}
    /\ file0 = file
    /\ arg = None
    /\ op = "none"
    /\ outcome = "none"
    /\ ret = None
    /\ reported = <<>>
    /\ minted = <<>>
    /\ calls = 0
    /\ Idle
    /\ NoProject
    /\ listing \in Listings
    /\ option \in {"clone", "scratch"}
    /\ quantity \in 0..MaxQuantity
    /\ filename \in {None} \cup {listing[i] : i \in {j \in 1..Len(listing) :
                                                        IsAprx(listing[j])}}
    /\ created = <<>>
    /\ picked = None
    /\ NoCrawl
    /\ NoTail

\* a call of add_map(directory, option, quantity, filename, template) with
\* the template L_08x11
AddMap ==
    /\ op = "none"
    /\ LET a == add_map(listing, option, quantity, filename, "L_08x11", year,
                        file)
       IN  /\ op' = "add_map"
           /\ outcome' = a.outcome
           /\ created' = a.created
           /\ picked' = a.picked
           /\ file' = a.file
           /\ minted' = a.minted
           /\ reported' = a.reported
    /\ ret' = None
    /\ file0' = file
    /\ calls' = calls + 1
    /\ UNCHANGED <<year, arg, procVars, projVars, crawlVars, tailVars, listing, option,
                   quantity, filename>>

NextAddMap == AddMap

SpecAddMap == InitAddMap /\ [][NextAddMap]_vars

----------------------------------------------------------------------------
(* get_metadata *)

\* os.path.join(root, file)
join(root, f) == root \o <<"\\">> \o f

\* the `directory` argument and its one subfolder
DIRECTORY == <<"d">>

SUBFOLDER == join(DIRECTORY, <<"s">>)

\* the file get_metadata writes: rf'{directory}\\Catalog.csv'
CatalogCsv == <<"C", "a", "t", "a", "l", "o", "g", ".", "c", "s", "v">>

\* os.path.getmtime of the file `f` of folder `root`
getmtime_mut(tr, root, f, now) == now

getmtime(tr, root, f, now) ==
    (CHOOSE e \in tr : e.root = root /\ e.name = f).mtime

\* datetime.datetime.utcfromtimestamp(unix_time)
utcfromtimestamp(unix_time) ==
    [day |-> unix_time \div 86400,
     hour |-> (unix_time % 86400) \div 3600,
     minute |-> (unix_time % 3600) \div 60,
     second |-> unix_time % 60]

\* df4.index += 1, on the default index 0, 1, ...
frame_index_mut(i) == i

frame_index(i) == i + 1

\* concat(objs=[df1, df2, df3], axis='columns') with the index named ID
frame(names, paths, times) ==
    [i \in 1..Len(names) |->
        [ID |-> frame_index(i - 1), FILE_NAME |-> names[i],
         FILE_PATH |-> paths[i], LAST_MODIFIED |-> times[i]]]

\* df4.to_csv(path_or_buf=rf'{directory}\\Catalog.csv'): the file is created
\* or replaced, and modified now
to_csv(tr, now) ==
    {e \in tr : ~(e.root = DIRECTORY /\ e.name = CatalogCsv)}
        \cup {[root |-> DIRECTORY, name |-> CatalogCsv, mtime |-> now]}

RECURSIVE get_metadata_loop(_, _, _)
\* the body of `for root, folders, files in os.walk(directory): for file in
\* files`, from the file at position 1 of `walk` on
\* st: the three lists, the files, Catalog.csv and the time so far
get_metadata_loop(ext, walk, st) ==
    IF walk = <<>> THEN st
    ELSE LET root == walk[1].root
             f == walk[1].name
         IN  IF ~endswith(f, ext)
             THEN get_metadata_loop(ext, Tail(walk), st)
             ELSE LET location == join(root, f)
                      unix_time == getmtime(st.tree, root, f, st.clock)
                      names == Append(st.name, f)
                      paths == Append(st.path, location)
                      times == Append(st.time, utcfromtimestamp(unix_time))
                  IN  get_metadata_loop(ext, Tail(walk),
                          [name |-> names, path |-> paths, time |-> times,
                           tree |-> to_csv(st.tree, st.clock),
                           csv |-> frame(names, paths, times),
                           clock |-> st.clock + 1])

\* get_metadata(extension, directory), os.walk yielding the files in the
\* order `walk`
get_metadata(ext, walk, tr, csv, now) ==
    get_metadata_loop(ext, walk,
        [name |-> <<>>, path |-> <<>>, time |-> <<>>, tree |-> tr,
         csv |-> csv, clock |-> now])

----------------------------------------------------------------------------
(* get_metadata as a state machine *)

\* the files the directory may hold when the first call starts
Files ==
    {[root |-> DIRECTORY, name |-> <<"a", ".", "c", "s", "v">>, mtime |-> 59],
     [root |-> DIRECTORY, name |-> <<"b">> \o APRX, mtime |-> 86399],
     [root |-> DIRECTORY, name |-> <<"c">> \o APRX, mtime |-> 86400],
     [root |-> SUBFOLDER, name |-> <<"a", ".", "c", "s", "v">>, mtime |-> 3600]}

Extensions == {<<".", "c", "s", "v">>, APRX, <<".", "t", "x", "t">>}

\* the orders in which a listing may return the files of S
Orders(S) ==
    {s \in [1..Cardinality(S) -> S] :
        \A i, j \in 1..Cardinality(S) : i # j => s[i] # s[j]}

\* os.walk(directory), top down: the files of the directory, then those of
\* its subfolder, each listing in any order
Walks(tr) ==
    {r \o s : r \in Orders({e \in tr : e.root = DIRECTORY}),
              s \in Orders({e \in tr : e.root = SUBFOLDER})}

InitCrawl ==
    /\ year \in Years
    /\ file = Str(<<1, 0, 0>>)
    /\ file0 = file
    /\ arg = None
    /\ op = "none"
    /\ outcome = "none"
    /\ ret = None
    /\ reported = <<>>
    /\ minted = <<>>
    /\ calls = 0
    /\ Idle
    /\ NoProject
    /\ NoMap
    /\ NoTail
    /\ tree \in SUBSET Files
    /\ tree0 = tree
    /\ clock = 86401
    /\ extension = None
    /\ walked = <<>>
    /\ metadata = <<>>
    /\ metadata0 = <<>>
    /\ crawls = <<>>

\* a call of get_metadata(extension, directory)
GetMetadata ==
    /\ calls < MaxCrawls
    /\ Cardinality(tree) <= MaxFiles
    /\ \E ext \in Extensions, walk \in Walks(tree) :
         LET g == get_metadata(ext, walk, tree, metadata, clock) IN
           /\ extension' = ext
           /\ walked' = walk
           /\ tree' = g.tree
           /\ metadata' = g.csv
           /\ clock' = g.clock + 1
           /\ crawls' = Append(crawls, [extension |-> ext, rows |-> g.csv])
    /\ tree0' = tree
    /\ metadata0' = metadata
    /\ op' = "get_metadata"
    /\ outcome' = "returned"
    /\ calls' = calls + 1
    /\ UNCHANGED <<year, file, file0, arg, ret, reported, minted, procVars,
                   projVars, mapVars, tailVars>>

NextCrawl == GetMetadata

SpecCrawl == InitCrawl /\ [][NextCrawl]_vars

----------------------------------------------------------------------------
(* get_suffix (gp.py) and get_letters (utils.py): the same generator *)

\* string.ascii_uppercase
UPPER ==
    <<"A", "B", "C", "D", "E", "F", "G", "H", "I", "J", "K", "L", "M", "N",
      "O", "P", "Q", "R", "S", "T", "U", "V", "W", "X", "Y", "Z">>

\* letter * loops
times(c, n) == [i \in 1..n |-> c]

\* the increment is missing
next_loops_mut(pos, n) == n

\* if letter.startswith('Z'): loops += 1, run when the generator resumes
\* after the yield of the letter at position pos
next_loops(pos, n) == IF pos > 0 /\ UPPER[pos] = "Z" THEN n + 1 ELSE n

\* next(generator): the generator resumes after its last yield and runs to
\* the next one; the `while loops > 0` test is run when the for loop is over
next_value(string, pos, n) ==
    LET n1 == next_loops(pos, n) IN
    IF pos > 0 /\ pos < Len(UPPER)
    THEN [outcome |-> "yielded", letter |-> pos + 1, loops |-> n1,
          text |-> string \o times(UPPER[pos + 1], n1)]
    ELSE IF n1 > 0
    THEN [outcome |-> "yielded", letter |-> 1, loops |-> n1,
          text |-> string \o times(UPPER[1], n1)]
    ELSE [outcome |-> "StopIteration", letter |-> pos, loops |-> n1,
          text |-> None]

Strings == {<<>>, <<"f", "i", "l", "e", "n", "a", "m", "e", "_">>, <<"A">>}

\* generator = get_suffix(string): no statement of the body has run, the
\* first next() runs `loops = 1`
InitGenerator ==
    /\ year \in Years
    /\ file = Str(<<1, 0, 0>>)
    /\ file0 = file
    /\ arg = None
    /\ op = "none"
    /\ outcome = "none"
    /\ ret = None
    /\ reported = <<>>
    /\ minted = <<>>
    /\ calls = 0
    /\ Idle
    /\ NoProject
    /\ NoMap
    /\ tree = {} /\ tree0 = {} /\ clock = 0 /\ extension = None
    /\ walked = <<>> /\ metadata = <<>> /\ metadata0 = <<>> /\ crawls = <<>>
    /\ NoIndex
    /\ NoString
    /\ stem \in Strings
    /\ loops = 1
    /\ letter = 0
    /\ yielded = <<>>

\* a call of next(generator)
NextValue ==
    /\ outcome # "StopIteration"
    /\ Len(yielded) < MaxYields
    /\ LET v == next_value(stem, letter, loops) IN
         /\ op' = "next"
         /\ outcome' = v.outcome
         /\ ret' = v.text
         /\ letter' = v.letter
         /\ loops' = v.loops
         /\ yielded' = IF v.outcome = "yielded" THEN Append(yielded, v.text)
                       ELSE yielded
    /\ UNCHANGED <<year, file, file0, arg, reported, minted, calls, procVars,
                   projVars, mapVars, crawlVars, indexVars, strVars, stem>>

NextGenerator == NextValue

SpecGenerator == InitGenerator /\ [][NextGenerator]_vars

----------------------------------------------------------------------------
(* validate_string (utils.py) *)

RECURSIVE str(_)
\* str(n) for a natural number n
str(n) ==
    IF n < 10 THEN <<DIGITS[n + 1]>>
    ELSE str(n \div 10) \o <<DIGITS[(n % 10) + 1]>>

RECURSIVE str_less(_, _)
\* a < b for two strings of digits: Python compares strings character by
\* character, and a proper prefix is the smaller one
str_less(a, b) ==
    IF b = <<>> THEN FALSE
    ELSE IF a = <<>> THEN TRUE
    ELSE IF a[1] # b[1] THEN DigitVal(a[1]) < DigitVal(b[1])
    ELSE str_less(Tail(a), Tail(b))

\* validate_string(length, option, text): the first element of the tuple
validate_string(len_, opt, txt) ==
    IF str_less(len_, str(Len(txt))) THEN FALSE
    ELSE IF \E i \in 1..Len(txt) : isspace(txt[i]) THEN FALSE
    ELSE IF \E i \in 1..Len(txt) : txt[i] \in SPECIAL THEN FALSE
    ELSE IF opt = "alpha"
    THEN ~(\E i \in 1..Len(txt) : isnumeric(txt[i]))
    ELSE IF opt = "numeric"
    THEN ~(\E i \in 1..Len(txt) : isalpha(txt[i]))
    ELSE TRUE

\* the `length` arguments
Maxima == {Str(<<3>>), Str(<<5>>), Str(<<1, 0>>), Str(<<1, 2>>)}

\* the `text` arguments
Texts ==
    {Run("a", n) : n \in 0..12} \cup {Run("7", n) : n \in {1, 3, 11}}
        \cup {<<"a", " ">>, <<"a", "!">>, <<"a", "7">>, <<"7", "Z", "7", "7">>}

InitString ==
    /\ year \in Years
    /\ file = Str(<<1, 0, 0>>)
    /\ file0 = file
    /\ arg = None
    /\ op = "none"
    /\ outcome = "none"
    /\ ret = None
    /\ reported = <<>>
    /\ minted = <<>>
    /\ calls = 0
    /\ Idle
    /\ NoProject
    /\ listing = <<>> /\ quantity = 0 /\ filename = None
    /\ created = <<>> /\ picked = None
    /\ option \in {"alpha", "numeric", "alphanumeric"}
    /\ tree = {} /\ tree0 = {} /\ clock = 0 /\ extension = None
    /\ walked = <<>> /\ metadata = <<>> /\ metadata0 = <<>> /\ crawls = <<>>
    /\ NoIndex
    /\ NoGenerator
    /\ length \in Maxima
    /\ text \in Texts
    /\ result = TRUE

\* a call of validate_string(length, option, text)
ValidateString ==
    /\ op = "none"
    /\ op' = "validate_string"
    /\ outcome' = "returned"
    /\ result' = validate_string(length, option, text)
    /\ ret' = text
    /\ calls' = calls + 1
    /\ UNCHANGED <<year, file, file0, arg, reported, minted, procVars,
                   projVars, mapVars, crawlVars, indexVars, genVars, length,
                   text>>

NextString == ValidateString

SpecString == InitString /\ [][NextString]_vars

----------------------------------------------------------------------------
(* create_index: the attribute files and the joins *)

\* the missing value of a text column and of a time column
NaN == <<"NaN">>

NaT == [day |-> -1, hour |-> -1, minute |-> -1, second |-> -1]

RECURSIVE int(_)
\* int(s) for a string of digits
int(s) ==
    IF s = <<>> THEN 0
    ELSE 10 * int(SubSeq(s, 1, Len(s) - 1)) + DigitVal(s[Len(s)])

\* f'{str(identifier)}|{name}'
attribute_line(ident, name_) == str(ident) \o <<"|">> \o name_

RECURSIVE join_lines(_)
\* '\n'.join(lines)
join_lines(lines) ==
    IF lines = <<>> THEN <<>>
    ELSE IF Len(lines) = 1 THEN lines[1]
    ELSE lines[1] \o <<"\n">> \o join_lines(Tail(lines))

\* file.write(f'ID|..._NAME\n{index}')
write_index(header, lines) == header \o <<"\n">> \o join_lines(lines)

\* read_csv(sep='|', index_col='ID') of a file of two columns: the first
\* line is the header, blank lines are skipped
read_csv(content) ==
    LET NotEmpty(line) == line # <<>>
        lines == SelectSeq(Tail(split(content, "\n")), NotEmpty)
    IN
    [i \in 1..Len(lines) |->
        [ID |-> int(split(lines[i], "|")[1]),
         NAME |-> split(lines[i], "|")[2]]]

RECURSIVE merge_mut(_, _)
\* an inner join
merge_mut(left, right) ==
    IF left = <<>> THEN <<>>
    ELSE LET Same(r) == r.ID = left[1].ID
             found == SelectSeq(right, Same)
         IN  [i \in 1..Len(found) |->
                 [ID |-> left[1].ID, NAME |-> left[1].NAME,
                  FILE_NAME |-> found[i].FILE_NAME,
                  FILE_PATH |-> found[i].FILE_PATH,
                  LAST_MODIFIED |-> found[i].LAST_MODIFIED]]
                 \o merge_mut(Tail(left), right)

RECURSIVE merge(_, _)
\* merge(left=..., right=df_info, how='left', left_on='ID', right_on='ID'):
\* the rows of left in their order, each once per row of right of its ID,
\* or once with missing values
merge(left, right) ==
    IF left = <<>> THEN <<>>
    ELSE LET Same(r) == r.ID = left[1].ID
             found == SelectSeq(right, Same)
         IN  (IF found = <<>>
              THEN <<[ID |-> left[1].ID, NAME |-> left[1].NAME,
                      FILE_NAME |-> NaN, FILE_PATH |-> NaN,
                      LAST_MODIFIED |-> NaT]>>
              ELSE [i \in 1..Len(found) |->
                      [ID |-> left[1].ID, NAME |-> left[1].NAME,
                       FILE_NAME |-> found[i].FILE_NAME,
                       FILE_PATH |-> found[i].FILE_PATH,
                       LAST_MODIFIED |-> found[i].LAST_MODIFIED]])
                 \o merge(Tail(left), right)

----------------------------------------------------------------------------
(* The joins of create_index on drawn tables *)

\* attribute tables of up to two rows
LeftTables ==
    LET AttributeRows == {[ID |-> i, NAME |-> n] : i \in 1..3, n \in {<<"M">>, <<"N">>}} IN
    {<<>>} \cup {<<a>> : a \in AttributeRows}
        \cup {<<a, b>> : a \in AttributeRows, b \in AttributeRows}

\* the catalogs get_metadata leaves for no, one and two .aprx files
RightTables ==
    {frame(SubSeq(<<<<"b">> \o APRX, <<"c">> \o APRX>>, 1, k),
           SubSeq(<<join(DIRECTORY, <<"b">> \o APRX),
                    join(DIRECTORY, <<"c">> \o APRX)>>, 1, k),
           SubSeq(<<utcfromtimestamp(86399), utcfromtimestamp(86400)>>, 1, k)) :
        k \in 0..2}

InitMerge ==
    /\ year \in Years
    /\ file = Str(<<1, 0, 0>>)
    /\ file0 = file
    /\ arg = None
    /\ op = "none"
    /\ outcome = "none"
    /\ ret = None
    /\ reported = <<>>
    /\ minted = <<>>
    /\ calls = 0
    /\ Idle
    /\ NoProject
    /\ NoMap
    /\ tree = {} /\ tree0 = {} /\ clock = 0 /\ extension = None
    /\ walked = <<>> /\ metadata0 = <<>> /\ crawls = <<>>
    /\ metadata \in RightTables
    /\ arc = <<>>
    /\ \E a \in LeftTables, b \in {<<>>, <<[ID |-> 2, NAME |-> <<"L">>]>>} :
         attributes = [Maps |-> a, Layers |-> b, Layouts |-> <<>>]
    /\ joined = [Maps |-> <<>>, Layers |-> <<>>, Layouts |-> <<>>]
    /\ NoGenerator
    /\ NoString

\* the three merge calls of create_index
MergeTables ==
    /\ op = "none"
    /\ op' = "merge"
    /\ outcome' = "returned"
    /\ joined' = [Maps |-> merge(attributes.Maps, metadata),
                  Layers |-> merge(attributes.Layers, metadata),
                  Layouts |-> merge(attributes.Layouts, metadata)]
    /\ calls' = calls + 1
    /\ UNCHANGED <<year, file, file0, arg, ret, reported, minted, procVars,
                   projVars, mapVars, crawlVars, arc, attributes, genVars,
                   strVars>>

NextMerge == MergeTables

SpecMerge == InitMerge /\ [][NextMerge]_vars

----------------------------------------------------------------------------
(* create_index *)

\* enumerate(projects, start=1), for the project at position k counted from 0
identifier_mut(k) == k

identifier(k) == 1 + k

\* the project files whose content is drawn
AprxPaths == {join(DIRECTORY, <<"b">> \o APRX), join(DIRECTORY, <<"c">> \o APRX)}

\* the contents of the two project files: the maps (with their layers) and
\* the layouts of each
Projects ==
    LET Project0 == [maps |-> <<>>, layouts |-> <<>>]
        Project1 == [maps |-> <<[name |-> <<"M">>, layers |-> << <<"L">>, <<"L">> >>]>>,
                     layouts |-> << <<"Y">> >>]
        Project2 == [maps |-> <<[name |-> <<"N">>, layers |-> <<>>],
                                [name |-> <<"Q">>, layers |-> << <<"K">> >>]>>,
                     layouts |-> <<>>]
    IN  {[p \in AprxPaths |-> IF p[3] = "b" THEN Project1 ELSE Project2],
         [p \in AprxPaths |-> IF p[3] = "b" THEN Project2 ELSE Project0],
         [p \in AprxPaths |-> IF p[3] = "b" THEN Project0 ELSE Project1]}

\* arcpy.mp.ArcGISProject(i) opens an existing .aprx file
ArcGISProject(location, tr) ==
    \E e \in tr : join(e.root, e.name) = location /\ endswith(e.name, APRX)

RECURSIVE flatten(_)
\* the lists of a list, one after the other
flatten(lists) ==
    IF lists = <<>> THEN <<>> ELSE lists[1] \o flatten(Tail(lists))

\* the lines appended for the project `project` of number `ident`
frames_of(ident, project) ==
    [j \in 1..Len(project.maps) |-> attribute_line(ident, project.maps[j].name)]

layers_of(ident, project) ==
    flatten([j \in 1..Len(project.maps) |->
        [l \in 1..Len(project.maps[j].layers) |->
            attribute_line(ident, project.maps[j].layers[l])]])

layouts_of(ident, project) ==
    [j \in 1..Len(project.layouts) |-> attribute_line(ident, project.layouts[j])]

\* the names of the files create_index writes: Maps.csv, Layers.csv,
\* Layouts.csv, MapsJoined.csv, LayersJoined.csv and LayoutsJoined.csv
IndexFiles ==
    {<<"M", "a", "p", "s", ".", "c", "s", "v">>,
     <<"L", "a", "y", "e", "r", "s", ".", "c", "s", "v">>,
     <<"L", "a", "y", "o", "u", "t", "s", ".", "c", "s", "v">>,
     <<"M", "a", "p", "s", "J", "o", "i", "n", "e", "d", ".", "c", "s", "v">>,
     <<"L", "a", "y", "e", "r", "s", "J", "o", "i", "n", "e", "d", ".", "c", "s", "v">>,
     <<"L", "a", "y", "o", "u", "t", "s", "J", "o", "i", "n", "e", "d", ".", "c", "s", "v">>}

\* the headers of the three attribute files
Header ==
    [Maps |-> <<"I", "D", "|", "M", "A", "P", "_", "N", "A", "M", "E">>,
     Layers |-> <<"I", "D", "|", "L", "A", "Y", "E", "R", "_", "N", "A", "M", "E">>,
     Layouts |-> <<"I", "D", "|", "L", "A", "Y", "O", "U", "T", "_", "N", "A", "M", "E">>]

\* open(..., 'w+') and to_csv: the six files are created or replaced
write_files(tr, now) ==
    {e \in tr : ~(e.root = DIRECTORY /\ e.name \in IndexFiles)}
        \cup {[root |-> DIRECTORY, name |-> n, mtime |-> now] : n \in IndexFiles}

\* create_index(directory), os.walk yielding the files in the order `walk`,
\* the project files holding `contents`
create_index(walk, tr, csv, now, contents, before) ==
    LET g == get_metadata(APRX, walk, tr, csv, now)
        df == g.csv
        failed(e) == [outcome |-> e, tree |-> g.tree, csv |-> g.csv,
                      clock |-> g.clock, attributes |-> before.attributes,
                      joined |-> before.joined]
    IN  IF ~\E e \in g.tree : e.root = DIRECTORY /\ e.name = CatalogCsv
        THEN failed("FileNotFoundError")
        ELSE IF \E i \in 1..Len(df) : ~ArcGISProject(df[i].FILE_PATH, g.tree)
        THEN failed("OSError")
        ELSE LET opened == [i \in 1..Len(df) |-> contents[df[i].FILE_PATH]]
                 map_frames == flatten([i \in 1..Len(df) |-> frames_of(identifier(i - 1), opened[i])])
                 map_layers == flatten([i \in 1..Len(df) |-> layers_of(identifier(i - 1), opened[i])])
                 map_layouts == flatten([i \in 1..Len(df) |-> layouts_of(identifier(i - 1), opened[i])])
                 df_maps == read_csv(write_index(Header.Maps, map_frames))
                 df_layers == read_csv(write_index(Header.Layers, map_layers))
                 df_layouts == read_csv(write_index(Header.Layouts, map_layouts))
             IN  [outcome |-> "returned",
                  tree |-> write_files(g.tree, g.clock),
                  csv |-> df,
                  clock |-> g.clock,
                  attributes |-> [Maps |-> df_maps, Layers |-> df_layers, Layouts |-> df_layouts],
                  joined |-> [Maps |-> merge(df_maps, df),
                              Layers |-> merge(df_layers, df),
                              Layouts |-> merge(df_layouts, df)]]

----------------------------------------------------------------------------
(* create_index as a state machine *)

InitIndex ==
    /\ year = Str(<<2, 0, 2, 5>>)
    /\ file = Str(<<1, 0, 0>>)
    /\ file0 = file
    /\ arg = None
    /\ op = "none"
    /\ outcome = "none"
    /\ ret = None
    /\ reported = <<>>
    /\ minted = <<>>
    /\ calls = 0
    /\ Idle
    /\ NoProject
    /\ NoMap
    /\ NoGenerator
    /\ NoString
    /\ tree \in SUBSET Files
    /\ tree0 = tree
    /\ clock = 86401
    /\ extension = None
    /\ walked = <<>>
    /\ metadata = <<>>
    /\ metadata0 = <<>>
    /\ crawls = <<>>
    /\ arc \in Projects
    /\ attributes = [Maps |-> <<>>, Layers |-> <<>>, Layouts |-> <<>>]
    /\ joined = [Maps |-> <<>>, Layers |-> <<>>, Layouts |-> <<>>]

\* a call of create_index(directory)
CreateIndex ==
    /\ calls < MaxCrawls
    /\ Cardinality(tree) <= MaxFiles
    /\ \E walk \in Walks(tree) :
         LET c == create_index(walk, tree, metadata, clock, arc,
                      [attributes |-> attributes, joined |-> joined]) IN
           /\ extension' = APRX
           /\ walked' = walk
           /\ tree' = c.tree
           /\ metadata' = c.csv
           /\ clock' = c.clock + 1
           /\ crawls' = Append(crawls, [extension |-> APRX, rows |-> c.csv])
           /\ attributes' = c.attributes
           /\ joined' = c.joined
           /\ outcome' = c.outcome
    /\ tree0' = tree
    /\ metadata0' = metadata
    /\ op' = "create_index"
    /\ calls' = calls + 1
    /\ UNCHANGED <<year, file, file0, arg, ret, reported, minted, procVars,
                   projVars, mapVars, arc, genVars, strVars>>

NextIndex == GetMetadata \/ CreateIndex

SpecIndex == InitIndex /\ [][NextIndex]_vars

----------------------------------------------------------------------------
(* Vocabulary of the properties, stated apart from the operators above *)

\* the string s without its leading zeros (a lone "0" stays)
Canon(s) ==
    IF \A i \in 1..Len(s) : s[i] = "0" THEN <<"0">>
    ELSE LET k == CHOOSE i \in 1..Len(s) :
                      s[i] # "0" /\ \A j \in 1..(i - 1) : s[j] = "0"
         IN  SubSeq(s, k, Len(s))

\* number of trailing nines of s
Nines(s) ==
    Cardinality({i \in 1..Len(s) : \A j \in i..Len(s) : s[j] = "9"})

\* b is the decimal numeral of n + 1, where a is the decimal numeral of n
IsSucc(a, b) ==
    LET k == Nines(a)
        n == Len(a)
    IN  IF k = n
        THEN /\ Len(b) = n + 1
             /\ b[1] = "1"
             /\ \A j \in 2..(n + 1) : b[j] = "0"
        ELSE /\ Len(b) = n
             /\ \A j \in 1..(n - k - 1) : b[j] = a[j]
             /\ DigitVal(b[n - k]) = DigitVal(a[n - k]) + 1
             /\ \A j \in (n - k + 1)..n : b[j] = "0"

\* a < b as numbers, for numerals without leading zeros
NumLess(a, b) ==
    \/ Len(a) < Len(b)
    \/ /\ Len(a) = Len(b)
       /\ \E i \in 1..Len(a) :
              /\ DigitVal(a[i]) < DigitVal(b[i])
              /\ \A j \in 1..(i - 1) : a[j] = b[j]

\* the number a string of four digits denotes
NatOf4(s) ==
    1000 * DigitVal(s[1]) + 100 * DigitVal(s[2]) + 10 * DigitVal(s[3])
        + DigitVal(s[4])

IsBase(s) == Len(s) = 8 /\ \A i \in 1..8 : s[i] \in Digit

IsComposite(s) ==
    /\ Len(s) = 13
    /\ s[9] = "-"
    /\ \A i \in (1..13) \ {9} : s[i] \in Digit

BaseOf(s) == SubSeq(s, 1, 8)

SuffixOf(s) == SubSeq(s, 10, 13)

Dashes(s) == {i \in 1..Len(s) : s[i] = "-"}

Rejected(c) == c \in Letter \cup Space \cup SPECIAL

\* a letter, whitespace or punctuation character in the base or the suffix
BadSegment(s) ==
    \/ Len(s) = 8 /\ \E i \in 1..8 : Rejected(s[i])
    \/ Len(s) = 13 /\ \E i \in (1..13) \ {9} : Rejected(s[i])

Returned(f) == op = f /\ outcome = "returned"

----------------------------------------------------------------------------
(* Properties *)

\* C1: get_serial on a counter file holding n returns year followed by n+1
\* and leaves exactly n+1, without the year, in the counter file.
C1_Claim ==
    Returned("get_serial") =>
        /\ Len(ret) > 4
        /\ SubSeq(ret, 1, 4) = year
        /\ IsSucc(Canon(file0), SubSeq(ret, 5, Len(ret)))
        /\ file = SubSeq(ret, 5, Len(ret))

\* C2: new_serial of a base of 8 decimal digits returns the base followed
\* by -0001.
C2_BaseGetsFirstSuffix ==
    (op = "new_serial" /\ IsBase(arg)) =>
        /\ outcome = "returned"
        /\ ret = arg \o <<"-", "0", "0", "0", "1">>

C2_Witness ==
    /\ op = "new_serial"
    /\ arg = Str(<<2, 0, 2, 5, 1, 2, 3, 4>>)
    /\ ret = Str(<<2, 0, 2, 5, 1, 2, 3, 4>>) \o <<"-", "0", "0", "0", "1">>

\* C3: new_serial of a composite B-CCCC with CCCC < 9999 returns B, a dash
\* and CCCC+1 padded with zeros to 4 digits.
C3_SuffixIncrement ==
    (op = "new_serial" /\ IsComposite(arg) /\ NatOf4(SuffixOf(arg)) < 9999) =>
        /\ outcome = "returned"
        /\ IsComposite(ret)
        /\ BaseOf(ret) = BaseOf(arg)
        /\ NatOf4(SuffixOf(ret)) = NatOf4(SuffixOf(arg)) + 1

C3_Witness ==
    /\ op = "new_serial"
    /\ arg = Str(<<2, 0, 2, 5, 1, 2, 3, 4>>) \o <<"-">> \o Str(<<0, 1, 9, 9>>)
    /\ ret = Str(<<2, 0, 2, 5, 1, 2, 3, 4>>) \o <<"-">> \o Str(<<0, 2, 0, 0>>)

Rollover == op = "new_serial" /\ IsComposite(arg) /\ NatOf4(SuffixOf(arg)) = 9999

\* C4 as claimed: new_serial(B-9999) returns a serial with suffix 0001 whose
\* base is minted from the counter and differs from B, whatever the counter
\* file holds.
C4_Claim ==
    Rollover =>
        /\ outcome = "returned"
        /\ Len(ret) > 5
        /\ SubSeq(ret, Len(ret) - 4, Len(ret)) = <<"-", "0", "0", "0", "1">>
        /\ SubSeq(ret, 1, Len(ret) - 5) # BaseOf(arg)

\* C4 as amended: new_serial(B-9999) returns year, n+1 and -0001, where n is
\* the integer of the counter file, and stores a new content in the counter
\* file; the base is B again only if B is itself year followed by n+1.
C4_RolloverMints ==
    Rollover =>
        /\ outcome = "returned"
        /\ Len(ret) > 9
        /\ SubSeq(ret, Len(ret) - 4, Len(ret)) = <<"-", "0", "0", "0", "1">>
        /\ SubSeq(ret, 1, 4) = year
        /\ IsSucc(Canon(file0), SubSeq(ret, 5, Len(ret) - 5))
        /\ file # file0
        /\ (SubSeq(ret, 1, Len(ret) - 5) = BaseOf(arg) =>
                /\ SubSeq(arg, 1, 4) = year
                /\ IsSucc(Canon(file0), Canon(SubSeq(arg, 5, 8))))

C4_Witness ==
    /\ Rollover
    /\ outcome = "returned"
    /\ file0 = Str(<<9, 9, 9, 8>>)
    /\ SubSeq(ret, 5, Len(ret)) = Str(<<9, 9, 9, 9>>) \o <<"-", "0", "0", "0", "1">>
    /\ BaseOf(ret) # BaseOf(arg)

\* C5: validate_serial reports an error for every string whose length is
\* neither 8 nor 13, and for every string of length 8 or 13 with a letter, a
\* whitespace or a punctuation character in its base or suffix segment.
C5_RejectsBadShape ==
    (op = "validate_serial" /\ (Len(arg) \notin {8, 13} \/ BadSegment(arg))) =>
        reported # <<>>

C5_Witness ==
    /\ op = "validate_serial"
    /\ Len(arg) = 8
    /\ \E i \in 1..8 : arg[i] = " "
    /\ \A i \in 1..8 : arg[i] \in Digit \cup {" "}
    /\ reported = <<"spaces">>

\* C6: for a string of length 13, validate_serial reports the format error
\* when the character at index 8 is not a dash or when there is more than one
\* dash.
C6_FormatError ==
    (op = "validate_serial" /\ Len(arg) = 13
        /\ (arg[9] # "-" \/ Cardinality(Dashes(arg)) > 1)) =>
        reported = <<"format">>

C6_Witness ==
    /\ op = "validate_serial"
    /\ Len(arg) = 13
    /\ arg[9] = "-"
    /\ Cardinality(Dashes(arg)) = 2
    /\ reported = <<"format">>

\* C7: when validate_serial reports an error for the string passed to
\* new_serial, the workflow halts and new_serial returns no identifier.
C7_Claim ==
    (op = "new_serial" /\ reported # <<>>) => outcome # "returned"

\* C8: every identifier minted from the counter file has a base of exactly 8
\* decimal digits: get_serial returns 8 digits, and new_serial() returns a
\* composite of 13 characters that validate_serial accepts.
C8_Claim ==
    /\ Returned("get_serial") => IsBase(ret)
    /\ (Returned("new_serial") /\ arg = None) =>
           (IsComposite(ret) /\ validate_serial(ret) = <<>>)

\* C9: in one process the integer in the counter file strictly increases with
\* every get_serial call, and the serials get_serial returned are pairwise
\* distinct.
C9_CounterIncreases ==
    /\ Returned("get_serial") => NumLess(Canon(file0), Canon(file))
    /\ file # file0 => NumLess(Canon(file0), Canon(file))
    /\ \A i, j \in 1..Len(minted) : i # j => minted[i] # minted[j]

C9_Witness ==
    /\ Returned("get_serial")
    /\ Len(minted) >= 2
    /\ file0 = minted[Len(minted) - 1]

Last(s) == s[Len(s)]

Done(p) == pc[p] = "idle" /\ out[p] # <<>>

\* C10: get_serial is not atomic. Two processes that read the same counter
\* value both return the same serial, year followed by that value plus one,
\* and once both are done the counter file holds that one serial.
C10_SameReadSameSerial ==
    \A p, q \in Procs :
        (p # q /\ Done(p) /\ Done(q) /\ rd[p] = rd[q]) =>
            /\ Last(out[p]) = Last(out[q])
            /\ SubSeq(Last(out[p]), 1, 4) = year
            /\ IsSucc(Canon(rd[p]), SubSeq(Last(out[p]), 5, Len(Last(out[p]))))
            /\ file = Last(out[p])

\* both processes read 100, both wrote and both returned the same serial
C10_Witness ==
    /\ Done(1) /\ Done(2)
    /\ rd[1] = Str(<<1, 0, 0>>)
    /\ rd[2] = Str(<<1, 0, 0>>)
    /\ Len(out[1]) = 1 /\ Len(out[2]) = 1
    /\ out[1] = out[2]
    /\ file = out[1][1]

\* C25: new_serial called with an 8-digit base, or with a composite whose
\* suffix is below 9999, leaves the counter file alone and mints nothing; the
\* counter file changes only on a call with no argument or with suffix 9999,
\* and then by one get_serial call: the file ends holding the base returned,
\* year followed by the successor of the integer it held.
C25_Claim ==
    /\ (op = "new_serial" /\ arg # None
            /\ (IsBase(arg)
                   \/ (IsComposite(arg) /\ NatOf4(SuffixOf(arg)) < 9999))) =>
           /\ outcome = "returned"
           /\ file = file0
           /\ \A i \in 1..Len(minted) : minted[i] # BaseOf(ret)
    /\ (op = "new_serial" /\ file # file0) =>
           /\ \/ arg = None
              \/ Len(arg) = 13 /\ SubSeq(arg, 10, 13) = <<"9", "9", "9", "9">>
           /\ outcome = "returned"
           /\ file = SubSeq(ret, 1, Len(ret) - 5)
           /\ SubSeq(file, 1, 4) = year
           /\ IsSucc(Canon(file0), SubSeq(file, 5, Len(file)))
           /\ minted # <<>>
           /\ minted[Len(minted)] = file

\* C29: validate_serial returns normally, reports no error and raises no
\* exception for every string of 8 digits and for every string of 8 digits,
\* a dash and 4 digits, in utils.py as in projects.py.
C29_Claim ==
    (op \in {"validate_serial", "utils.validate_serial"}
        /\ (IsBase(arg) \/ IsComposite(arg))) =>
        /\ outcome = "returned"
        /\ reported = <<>>

\* C30: every string for which validate_serial reports no error has a base
\* of 8 decimal digits and, at length 13, a suffix of 4 decimal digits.
C30_Claim ==
    (op = "validate_serial" /\ outcome = "returned" /\ reported = <<>>) =>
        (IsBase(arg) \/ IsComposite(arg))

----------------------------------------------------------------------------
(* Properties of the new-project workflow *)

Lines(s) == split(s, "\n")

\* description, name and template satisfy every rule of validate_project
ValidArgs ==
    /\ \A i \in 1..Len(desc) : desc[i] \notin Digit \cup SPECIAL
    /\ Len(desc) <= 50
    /\ \A i \in 1..Len(name) : name[i] \notin Space \cup SPECIAL
    /\ Len(name) <= 15
    /\ template \in SIZES

\* C11: log_project returns serial_name, serial-0001_name.aprx and
\* serial-0001, appends the one record serial,name,description,creator,
\* timestamp to the catalog and leaves what the catalog held unchanged.
C11_LogAppendsOneRecord ==
    Returned("log_project") =>
        /\ ret = <<arg \o <<"_">> \o name,
                   arg \o <<"-", "0", "0", "0", "1", "_">> \o name
                       \o <<".", "a", "p", "r", "x">>,
                   arg \o <<"-", "0", "0", "0", "1">>>>
        /\ \E creator \in Users, stamp \in Stamps :
             LET rec == arg \o <<",">> \o name \o <<",">> \o desc \o <<",">>
                            \o creator \o <<",">> \o stamp
             IN  /\ catalog = catalog0 \o <<"\n">> \o rec
                 /\ SubSeq(Lines(catalog), 1, Len(Lines(catalog0)))
                        = Lines(catalog0)
                 /\ (\A i \in 1..Len(rec) : rec[i] # "\n") =>
                        Lines(catalog) = Lines(catalog0) \o <<rec>>

C11_Witness ==
    /\ Returned("log_project")
    /\ catalog0 = <<"Z", "a">>
    /\ desc = <<"Z", "a", " ", "a">>
    /\ Len(Lines(catalog)) = 2
    /\ ret[3] = Str(<<2, 0, 2, 5, 1, 2, 3, 4>>) \o <<"-", "0", "0", "0", "1">>

\* C15: for valid arguments the new_project wrapper runs archive_project,
\* validate_project, get_serial, log_project, create_folder, name_elements and
\* the wrapped function, in that order, and returns the function's result.
C15_Claim ==
    (op = "new_project" /\ ValidArgs) =>
        /\ trace = <<"archive_project", "validate_project", "get_serial",
                     "log_project", "create_folder", "name_elements",
                     "function">>
        /\ outcome = "returned"
        /\ ret = <<"result">>

\* C16: when validate_project finds an invalid description, name or template
\* it shows a dialog and the process exits before get_serial runs: counter
\* file, catalog and project folders are as they were.
C16_InvalidExitsEarly ==
    /\ (op = "validate_project" /\ ~ValidArgs) =>
           (outcome = "SystemExit" /\ reported # <<>>)
    /\ (op = "new_project" /\ Len(trace) >= 2 /\ ~ValidArgs) =>
           /\ outcome = "SystemExit"
           /\ reported # <<>>
           /\ trace = <<"archive_project", "validate_project">>
           /\ file = file0
           /\ catalog = catalog0
           /\ projects = projects0

C16_Witness ==
    /\ op = "new_project"
    /\ outcome = "SystemExit"
    /\ name = <<"Z", " ", "a">>
    /\ desc = <<"Z", "a", " ", "a">>
    /\ template \in SIZES
    /\ Len(reported) = 2

\* C17: archive_project completes without error, leaves every folder whose
\* name starts with the current year under PROJECTS and moves every other
\* folder to ARCHIVE.
C17_Claim ==
    op = "archive_project" =>
        /\ outcome = "returned"
        /\ projects = {f \in projects0 : SubSeq(f, 1, 4) = year}
        /\ (projects0 \ projects) \subseteq archive

\* a is a prefix of b
IsPrefix(a, b) == Len(a) <= Len(b) /\ SubSeq(b, 1, Len(a)) = a

\* C24: the increment of get_serial is never rolled back: whatever is called
\* after get_serial and however it ends, the counter file keeps the serial
\* minted last and the catalog keeps what it held when the call started.
C24_NoRollback ==
    /\ minted # <<>> => file = minted[Len(minted)]
    /\ IsPrefix(catalog0, catalog)

\* get_serial, log_project with the serial minted, then create_folder
\* failing on the template
C24_Witness ==
    /\ op = "create_folder"
    /\ outcome = "FileNotFoundError"
    /\ Len(minted) = 1
    /\ arg = minted[1]
    /\ file = minted[1]
    /\ \E c \in Catalogs :
           IsPrefix(c \o <<"\n">> \o arg \o <<",">> \o name, catalog)

----------------------------------------------------------------------------
(* Properties of add_map *)

AprxAt == {i \in 1..Len(listing) : endswith(listing[i], <<".", "a", "p", "r", "x">>)}

\* the last .aprx file of the listing
LastAprx == listing[CHOOSE i \in AprxAt : \A j \in AprxAt : j <= i]

Underscore(n) == CHOOSE i \in 1..Len(n) : n[i] = "_"

\* the serial and the title of the file name serial_title.aprx
NameSerial(n) == SubSeq(n, 1, Underscore(n) - 1)

NameTitle(n) == SubSeq(n, Underscore(n) + 1, Len(n) - 5)

\* the counter of a serial: 0 for a base serial
CounterOf(s) == IF Len(s) = 13 THEN NatOf4(SuffixOf(s)) ELSE 0

\* serial a is not above serial b
SerialLeq(a, b) ==
    \/ NumLess(Canon(BaseOf(a)), Canon(BaseOf(b)))
    \/ BaseOf(a) = BaseOf(b) /\ CounterOf(a) <= CounterOf(b)

\* add_map is called as its docstring shows
DocumentedCall == option = "scratch" \/ filename # None

\* C12: add_map with quantity N on a directory whose last artifact is
\* B-CCCC_Title.aprx, CCCC+N <= 9999, creates exactly the N artifacts
\* B-(CCCC+1)_Title.aprx .. B-(CCCC+N)_Title.aprx.
C12_Claim ==
    (/\ op = "add_map"
     /\ DocumentedCall
     /\ AprxAt # {}
     /\ IsComposite(NameSerial(LastAprx))
     /\ CounterOf(NameSerial(LastAprx)) + quantity <= 9999) =>
        /\ outcome = "returned"
        /\ Len(created) = quantity
        /\ \A i \in 1..Len(created) :
             /\ endswith(created[i], <<".", "a", "p", "r", "x">>)
             /\ NameTitle(created[i]) = NameTitle(LastAprx)
             /\ IsComposite(NameSerial(created[i]))
             /\ BaseOf(NameSerial(created[i])) = BaseOf(NameSerial(LastAprx))
             /\ CounterOf(NameSerial(created[i]))
                    = CounterOf(NameSerial(LastAprx)) + i

\* C13: the base add_map takes is the highest serial among the .aprx file
\* names of the directory, whatever the order of the listing.
C13_Claim ==
    (op = "add_map" /\ picked # None) =>
        \A i \in AprxAt : SerialLeq(NameSerial(listing[i]), picked)

\* C14: on a directory without .aprx file add_map fails with the error of
\* pop on an empty list, before any artifact is created and without a change
\* of the counter file.
C14_EmptyDirectoryFails ==
    (op = "add_map" /\ AprxAt = {}) =>
        /\ outcome = "IndexError"
        /\ created = <<>>
        /\ file = file0
        /\ minted = <<>>

C14_Witness ==
    /\ op = "add_map"
    /\ listing = <<<<"Z", ".", "c", "s", "v">>>>
    /\ quantity = 2
    /\ outcome = "IndexError"

\* C26: add_map changes the counter file only if one of the artifacts it
\* creates carries the base serial it minted.
C26_Claim ==
    (op = "add_map" /\ file # file0) =>
        \E i \in 1..Len(created), j \in 1..Len(minted) :
            IsPrefix(minted[j] \o <<"-">>, created[i])

\* C27: add_map never overwrites an artifact: every file name it copies to
\* is absent from the directory before the call, whatever the order of the
\* listing.
C27_Claim ==
    op = "add_map" =>
        \A i \in 1..Len(created), j \in 1..Len(listing) :
            created[i] # listing[j]

----------------------------------------------------------------------------
(* Properties of get_metadata *)

\* string s ends with string x
EndsWith(s, x) ==
    /\ Len(s) >= Len(x)
    /\ \A i \in 1..Len(x) : s[Len(s) - Len(x) + i] = x[i]

Matched(e) == EndsWith(e.name, extension)

\* the files the last call had to record, in walk order, as they were when
\* the call started
Matching == SelectSeq(walked, Matched)

\* d is the UTC date and time of t seconds after the epoch
IsUTC(d, t) ==
    /\ d.hour \in 0..23
    /\ d.minute \in 0..59
    /\ d.second \in 0..59
    /\ d.day * 86400 + d.hour * 3600 + d.minute * 60 + d.second = t

\* the file get_metadata writes
IsOutput(e) == e.root = <<"d">> /\ e.name = CatalogCsv

\* C18: get_metadata writes one row (name, full path, last-modified UTC) per
\* file whose name ends with the extension, anywhere in the tree, with the
\* IDs 1..k in walk order.  (The row of Catalog.csv itself, when an earlier
\* row of the same call rewrote the file, holds the time of that rewrite.)
C18_OneRowPerFile ==
    (op = "get_metadata" /\ Matching # <<>>) =>
        /\ Len(metadata) = Len(Matching)
        /\ \A i \in 1..Len(metadata) :
             /\ metadata[i].ID = i
             /\ metadata[i].FILE_NAME = Matching[i].name
             /\ metadata[i].FILE_PATH
                    = Matching[i].root \o <<"\\">> \o Matching[i].name
             /\ IF IsOutput(Matching[i]) /\ i > 1
                THEN \E t \in (Matching[i].mtime + 1)..clock :
                        IsUTC(metadata[i].LAST_MODIFIED, t)
                ELSE IsUTC(metadata[i].LAST_MODIFIED, Matching[i].mtime)

C18_Witness ==
    /\ op = "get_metadata"
    /\ Len(Matching) = 3
    /\ IsOutput(Matching[2])
    /\ Matching[3].root # <<"d">>
    /\ metadata[3].ID = 3

\* C19: after every get_metadata call Catalog.csv holds exactly the rows of
\* that crawl, whatever number of files match the extension.
C19_Claim ==
    op = "get_metadata" =>
        /\ Len(metadata) = Len(Matching)
        /\ \A i \in 1..Len(metadata) :
             /\ metadata[i].FILE_NAME = Matching[i].name
             /\ metadata[i].FILE_PATH
                    = Matching[i].root \o <<"\\">> \o Matching[i].name

\* the rows of a catalog without their IDs
RowSet(rows) ==
    {[name |-> rows[i].FILE_NAME, path |-> rows[i].FILE_PATH,
      modified |-> rows[i].LAST_MODIFIED] : i \in 1..Len(rows)}

\* C20: two get_metadata runs with the same extension, nothing else touching
\* the tree in between, leave catalogs with the same set of rows, for every
\* extension.
C20_Claim ==
    \A i \in 1..(Len(crawls) - 1) :
        crawls[i].extension = crawls[i + 1].extension =>
            RowSet(crawls[i].rows) = RowSet(crawls[i + 1].rows)

\* C20, amended: the same, for every extension that the name Catalog.csv
\* does not end with.
C20_SameRowsUnlessOwnOutput ==
    \A i \in 1..(Len(crawls) - 1) :
        (/\ crawls[i].extension = crawls[i + 1].extension
         /\ ~EndsWith(CatalogCsv, crawls[i].extension)) =>
            RowSet(crawls[i].rows) = RowSet(crawls[i + 1].rows)

C20_Witness ==
    /\ Len(crawls) = 2
    /\ crawls[1].extension = <<".", "a", "p", "r", "x">>
    /\ crawls[2].extension = <<".", "a", "p", "r", "x">>
    /\ Len(crawls[2].rows) = 2
    /\ crawls[1].rows # crawls[2].rows

----------------------------------------------------------------------------
(* Properties of the generators *)

\* C22: the generator never ends and never yields a string twice: its k-th
\* value, k from 0, is the base string followed by letter number k mod 26 of
\* A..Z repeated (k div 26) + 1 times.
C22_GeneratorValues ==
    /\ outcome # "StopIteration"
    /\ \A k \in 0..(Len(yielded) - 1) :
         /\ Len(yielded[k + 1]) = Len(stem) + (k \div 26) + 1
         /\ SubSeq(yielded[k + 1], 1, Len(stem)) = stem
         /\ \A i \in (Len(stem) + 1)..Len(yielded[k + 1]) :
              yielded[k + 1][i] = UPPER[(k % 26) + 1]
    /\ \A i, j \in 1..Len(yielded) : i # j => yielded[i] # yielded[j]

C22_Witness ==
    /\ Len(yielded) = 28
    /\ yielded[1] = <<"f", "i", "l", "e", "n", "a", "m", "e", "_", "A">>
    /\ yielded[2] = <<"f", "i", "l", "e", "n", "a", "m", "e", "_", "B">>
    /\ yielded[26] = <<"f", "i", "l", "e", "n", "a", "m", "e", "_", "Z">>
    /\ yielded[28] = <<"f", "i", "l", "e", "n", "a", "m", "e", "_", "B", "B">>

----------------------------------------------------------------------------
(* Properties of validate_string *)

\* the number a string of one or two digits denotes
NatOf2(s) ==
    IF Len(s) = 1 THEN DigitVal(s[1])
    ELSE 10 * DigitVal(s[1]) + DigitVal(s[2])

\* a whitespace or punctuation character, a digit under 'alpha', a letter
\* under 'numeric'
BadCharacter ==
    \/ \E i \in 1..Len(text) : text[i] \in Space \cup SPECIAL
    \/ option = "alpha" /\ \E i \in 1..Len(text) : text[i] \in Digit
    \/ option = "numeric" /\ \E i \in 1..Len(text) : text[i] \in Letter

\* C23: validate_string returns False for every text longer than the maximum
\* `length` and never returns False on account of length for a text of at
\* most that many characters; it returns False for a text with a space or a
\* punctuation character, for 'alpha' with a digit and for 'numeric' with a
\* letter, and it returns the text unchanged.
C23_Claim ==
    op = "validate_string" =>
        /\ Len(text) > NatOf2(length) => result = FALSE
        /\ (Len(text) <= NatOf2(length) /\ ~BadCharacter) => result = TRUE
        /\ BadCharacter => result = FALSE
        /\ ret = text

----------------------------------------------------------------------------
(* Properties of create_index *)

Tables == {"Maps", "Layers", "Layouts"}

\* the metadata rows of the ID n
RowsOfID(n) == {i \in 1..Len(metadata) : metadata[i].ID = n}

\* C21: each join is a left join on ID with the attribute table on the left:
\* every attribute row appears, in its place, with the file name, path and
\* time of the metadata row of its ID, or once with null metadata columns
\* when no metadata row has its ID; a metadata row without attribute row does
\* not appear.
C21_LeftJoin ==
    op = "merge" =>
        \A k \in Tables :
            /\ Len(joined[k]) = Len(attributes[k])
            /\ \A i \in 1..Len(joined[k]) :
                 /\ joined[k][i].ID = attributes[k][i].ID
                 /\ joined[k][i].NAME = attributes[k][i].NAME
                 /\ \A m \in RowsOfID(attributes[k][i].ID) :
                      /\ joined[k][i].FILE_NAME = metadata[m].FILE_NAME
                      /\ joined[k][i].FILE_PATH = metadata[m].FILE_PATH
                      /\ joined[k][i].LAST_MODIFIED = metadata[m].LAST_MODIFIED
                 /\ RowsOfID(attributes[k][i].ID) = {} =>
                      /\ joined[k][i].FILE_NAME = <<"NaN">>
                      /\ joined[k][i].FILE_PATH = <<"NaN">>
                      /\ joined[k][i].LAST_MODIFIED.day = -1

\* one attribute row with a metadata row, one without, and a metadata row
\* that no attribute row names
C21_Witness ==
    /\ op = "merge"
    /\ Len(metadata) = 2
    /\ Len(attributes.Maps) = 2
    /\ attributes.Maps[1].ID = 3
    /\ attributes.Maps[2].ID = 1
    /\ Len(joined.Maps) = 2
    /\ joined.Maps[1].FILE_PATH = <<"NaN">>
    /\ joined.Maps[2].FILE_PATH = metadata[1].FILE_PATH

\* C28: when create_index returns, every ID of Maps.csv, Layers.csv and
\* Layouts.csv is the ID of exactly one row of the Catalog.csv read in the
\* call, each joined table has as many rows as its attribute table, and no
\* joined row has a null metadata column.
C28_IndexIntegrity ==
    (op = "create_index" /\ outcome = "returned") =>
        \A k \in Tables :
            /\ \A i \in 1..Len(attributes[k]) :
                 Cardinality(RowsOfID(attributes[k][i].ID)) = 1
            /\ Len(joined[k]) = Len(attributes[k])
            /\ \A i \in 1..Len(joined[k]) :
                 /\ joined[k][i].FILE_NAME # <<"NaN">>
                 /\ joined[k][i].FILE_PATH # <<"NaN">>
                 /\ joined[k][i].LAST_MODIFIED.day >= 0

\* create_index has returned on two projects, with maps, layers and a
\* layout of both IDs written
C28_Witness ==
    /\ op = "create_index"
    /\ outcome = "returned"
    /\ Len(metadata) = 2
    /\ Len(attributes.Maps) = 3
    /\ Len(attributes.Layers) = 3
    /\ Len(attributes.Layouts) = 1
    /\ {attributes.Maps[i].ID : i \in 1..3} = {1, 2}
    /\ Len(joined.Layers) = 3

====
